---- MODULE Spec2Model ----
(***************************************************************************)
(* Merit-order production plan calculator                                  *)
(* (application/calculator.py, application/models.py).                     *)
(*                                                                         *)
(* Quantities of power are fixed-point integers on a grid of which 0.1 MW  *)
(* is Tenth = 3 units.  Because Tenth is odd, round(x, 1) never            *)
(* meets a tie and Round1 below is exactly what round(x, 1) returns for a  *)
(* value on the grid.                                                      *)
(*                                                                         *)
(* remaining_load and the final total are results of float arithmetic,     *)
(* which differ from the grid value by a rounding error far below one grid *)
(* unit.  The error decides a comparison only when the two grid values are *)
(* equal; remaining_err keeps its sign (-1 below, 0 exact, +1 above), and  *)
(* every float subtraction may leave either sign.  Inputs, values returned *)
(* by round(x, 1) and wind derating by 0, 50 or 100 percent are exact.     *)
(*                                                                         *)
(* Prices are whole euros, efficiency and wind are percentages, and a cost *)
(* per MWh is kept in tenths of a euro.                                    *)
(***************************************************************************)
EXTENDS Integers, Sequences, FiniteSets

VARIABLES load, fuels, powerplants, pc, plants_with_cost, allocation,
          first_pass, remaining_load, remaining_err, subtractions, idx,
          adjusted, response, error

vars == <<load, fuels, powerplants, pc, plants_with_cost, allocation,
          first_pass, remaining_load, remaining_err, subtractions, idx,
          adjusted, response, error>>

(***************************************************************************)
(* Bounds of the explored requests.                                        *)
(***************************************************************************)
MaxPlants == 2
MaxLoad == 12

(***************************************************************************)
(* Program constants.                                                      *)
(***************************************************************************)
\* number of grid units in 0.1 MW, the precision of round(x, 1)
Tenth == 3
\* the 0.1 MW tolerance of the allocator and of the final check
Tolerance == Tenth
\* CO2_EMISSIONS_PER_MWH = 0.3, in tenths
CO2_EMISSIONS_PER_MWH == 3

GASFIRED == "gasfired"
TURBOJET == "turbojet"
WINDTURBINE == "windturbine"
PowerPlantType == {GASFIRED, TURBOJET, WINDTURBINE}

(***************************************************************************)
(* Pure helpers.                                                           *)
(***************************************************************************)
Abs(x) == IF x < 0 THEN -x ELSE x

Min(a, b) == IF a <= b THEN a ELSE b

\* x <= c and x >= c for a float x of grid value x and error sign e, and an
\* exact c
FloatLE(x, e, c) == x < c \/ (x = c /\ e <= 0)

FloatGE(x, e, c) == x > c \/ (x = c /\ e >= 0)

\* abs(x) > c
AbsGT(x, e, c) ==
    IF x >= 0 THEN ~FloatLE(x, e, c) ELSE ~FloatLE(0 - x, 0 - e, c)

\* round(x, 1) for x >= 0 on the grid
Round1(x) == ((x + (Tenth \div 2)) \div Tenth) * Tenth

RECURSIVE SumOver(_, _)
SumOver(f, S) ==
    IF S = {} THEN 0
    ELSE LET n == CHOOSE m \in S : TRUE IN f[n] + SumOver(f, S \ {n})

\* sum(allocation.values())
SumValues(alloc) == SumOver(alloc, DOMAIN alloc)

\* allocation.get(name, 0.0)
Get(alloc, name) == IF name \in DOMAIN alloc THEN alloc[name] ELSE 0

\* allocation[name] = value
Put(alloc, name, value) ==
    [n \in (DOMAIN alloc) \cup {name} |-> IF n = name THEN value ELSE alloc[n]]

(***************************************************************************)
(* Cost model.                                                             *)
(***************************************************************************)
\* cost per MWh in tenths of a euro:
\*   fuel / efficiency + co2 * 0.3 / efficiency
calculate_cost_per_mwh(plant, f) ==
    IF plant.type = WINDTURBINE THEN 0
    ELSE LET fuel_cost == IF plant.type = GASFIRED
                          THEN f.gas_euro_per_mwh
                          ELSE f.kerosine_euro_per_mwh
         IN  ((10 * fuel_cost) * 100) \div plant.efficiency
             + ((f.co2_euro_per_ton * CO2_EMISSIONS_PER_MWH) * 100)
                   \div plant.efficiency

get_actual_pmax(plant, f) ==
    IF plant.type = WINDTURBINE
    THEN (plant.pmax * f.wind_percentage) \div 100
    ELSE plant.pmax

PowerPlantWithCost(plant, f) ==
    [plant |-> plant,
     cost_per_mwh |-> calculate_cost_per_mwh(plant, f),
     actual_pmax |-> get_actual_pmax(plant, f)]

(***************************************************************************)
(* Merit order: list.sort(key = (cost_per_mwh, -actual_pmax)), a stable    *)
(* sort, computed as a stable insertion sort.                              *)
(***************************************************************************)
\* KeyLess with the key (-actual_pmax, cost_per_mwh), the tuple swapped
KeyLessPmaxFirst(a, b) ==
    \/ (0 - a.actual_pmax) < (0 - b.actual_pmax)
    \/ /\ a.actual_pmax = b.actual_pmax
       /\ a.cost_per_mwh < b.cost_per_mwh

\* KeyLess with the key cost_per_mwh alone
KeyLessCostOnly(a, b) == a.cost_per_mwh < b.cost_per_mwh

\* key(a) < key(b) for the tuple key (cost_per_mwh, -actual_pmax)
KeyLess(a, b) ==
    \/ a.cost_per_mwh < b.cost_per_mwh
    \/ /\ a.cost_per_mwh = b.cost_per_mwh
       /\ (0 - a.actual_pmax) < (0 - b.actual_pmax)

\* insert x into the sorted sequence s behind every element that is not
\* greater than x
RECURSIVE InsertSorted(_, _)
InsertSorted(s, x) ==
    IF s = <<>> THEN <<x>>
    ELSE IF KeyLess(x, s[Len(s)])
         THEN Append(InsertSorted(SubSeq(s, 1, Len(s) - 1), x), s[Len(s)])
         ELSE Append(s, x)

RECURSIVE SortByMerit(_)
SortByMerit(s) ==
    IF s = <<>> THEN <<>>
    ELSE InsertSorted(SortByMerit(SubSeq(s, 1, Len(s) - 1)), s[Len(s)])

\* calculator.py lines 83-95
MeritOrder(plants, f) ==
    SortByMerit([i \in 1..Len(plants) |-> PowerPlantWithCost(plants[i], f)])

(***************************************************************************)
(* The requests explored.                                                  *)
(***************************************************************************)
\* type and efficiency (percent) of the plants drawn
PlantKinds ==
    {[type |-> WINDTURBINE, efficiency |-> 100],
     [type |-> GASFIRED, efficiency |-> 50],
     [type |-> TURBOJET, efficiency |-> 100]}

\* pmin and pmax of the plants drawn, pmax >= pmin and pmax > 0; every pmax
\* is even, so that half of it is on the grid
PowerRanges ==
    {[pmin |-> 0, pmax |-> 2],
     [pmin |-> 0, pmax |-> 6],
     [pmin |-> 9, pmax |-> 12]}

GasPrices == {-3, 2}
KerosinePrices == {4}
Co2Prices == {0, 10}
WindPercentages == {0, 50, 100}

\* names are compared for equality only: the first plant is named 1 and each
\* later plant takes a name already used or the next unused one
NameLists(n) ==
    {ns \in [1..n -> 1..n] :
        /\ ns[1] = 1
        /\ \A i \in 2..n : \E j \in 1..(i - 1) : ns[i] <= ns[j] + 1}

PlantShapes ==
    {[type |-> k.type, efficiency |-> k.efficiency,
      pmin |-> r.pmin, pmax |-> r.pmax] : k \in PlantKinds, r \in PowerRanges}

FuelsValues ==
    [gas_euro_per_mwh : GasPrices, kerosine_euro_per_mwh : KerosinePrices,
     co2_euro_per_ton : Co2Prices, wind_percentage : WindPercentages]

Named(shapes, names) ==
    [i \in 1..Len(shapes) |->
        [name |-> names[i], type |-> shapes[i].type,
         efficiency |-> shapes[i].efficiency,
         pmin |-> shapes[i].pmin, pmax |-> shapes[i].pmax]]

\* ProductionPlanCalculator.__init__ on a request the model accepts
Init ==
    /\ load \in 1..MaxLoad
    /\ fuels \in FuelsValues
    /\ \E n \in 1..MaxPlants :
         \E shapes \in [1..n -> PlantShapes] :
           \E names \in NameLists(n) :
             powerplants = Named(shapes, names)
    /\ pc = "start"
    /\ plants_with_cost = <<>>
    /\ allocation = <<>>
    /\ first_pass = <<>>
    /\ remaining_load = 0
    /\ remaining_err = 0
    /\ subtractions = 0
    /\ idx = 0
    /\ adjusted = FALSE
    /\ response = <<>>
    /\ error = <<>>

(***************************************************************************)
(* calculate_production_plan, lines 83-104: cost every plant, sort into    *)
(* merit order, enter _allocate_power.                                     *)
(***************************************************************************)
EstablishMeritOrder ==
    /\ pc = "start"
    /\ plants_with_cost' = MeritOrder(powerplants, fuels)
    /\ allocation' = <<>>
    /\ remaining_load' = load
    /\ remaining_err' = 0
    /\ subtractions' = 0
    /\ idx' = 1
    /\ pc' = "greedy"
    /\ UNCHANGED <<load, fuels, powerplants, first_pass, adjusted, response,
                   error>>

(***************************************************************************)
(* _allocate_power, one iteration of the loop of lines 124-137.            *)
(***************************************************************************)
\* the error signs a float subtraction can leave on a remaining load of grid
\* value r: the sign is kept only where a later comparison can meet r, which
\* is at the tolerance and at the pmin of a plant
ErrAfterSubtraction(r) ==
    IF r = Tolerance \/ \E i \in 1..Len(powerplants) : r = powerplants[i].pmin
    THEN {-1, 1}
    ELSE {0}

\* GreedyAllocated that loads a plant to its maximum or not at all
GreedyAllocatedNoPartial(pwc, remaining, e) ==
    IF FloatLE(remaining, e, Tolerance) THEN 0
    ELSE IF pwc.actual_pmax <= remaining /\ pwc.actual_pmax >= pwc.plant.pmin
         THEN Round1(pwc.actual_pmax)
         ELSE 0

\* the value stored for pwc, given the remaining load and its error sign
GreedyAllocated(pwc, remaining, e) ==
    IF FloatLE(remaining, e, Tolerance) THEN 0
    ELSE LET available_power == Min(pwc.actual_pmax, remaining)
             available_err == IF remaining < pwc.actual_pmax THEN e
                              ELSE IF remaining > pwc.actual_pmax THEN 0
                              ELSE Min(e, 0)
         IN  IF FloatGE(available_power, available_err, pwc.plant.pmin)
             THEN Round1(available_power)
             ELSE 0

GreedyStep ==
    /\ pc = "greedy"
    /\ idx <= Len(plants_with_cost)
    /\ LET pwc == plants_with_cost[idx]
           allocated == GreedyAllocated(pwc, remaining_load, remaining_err)
       IN  /\ allocation' = Put(allocation, pwc.plant.name, allocated)
           /\ remaining_load' = remaining_load - allocated
           /\ IF allocated = 0
              THEN UNCHANGED <<remaining_err, subtractions>>
              ELSE /\ remaining_err'
                       \in ErrAfterSubtraction(remaining_load - allocated)
                   /\ subtractions' = Min(subtractions + 1, 2)
    /\ idx' = idx + 1
    /\ UNCHANGED <<load, fuels, powerplants, pc, plants_with_cost, first_pass,
                   adjusted, response, error>>

\* lines 139-141: the loop is over; call the adjuster or go to the check
NeedsAdjustment(remaining, e) == AbsGT(remaining, e, Tolerance)

GreedyDone ==
    /\ pc = "greedy"
    /\ idx > Len(plants_with_cost)
    /\ first_pass' = allocation
    /\ IF NeedsAdjustment(remaining_load, remaining_err)
       THEN /\ pc' = "adjust"
            /\ idx' = Len(plants_with_cost)
            /\ adjusted' = TRUE
       ELSE /\ pc' = "check"
            /\ idx' = 0
            /\ adjusted' = FALSE
    /\ UNCHANGED <<load, fuels, powerplants, plants_with_cost, allocation,
                   remaining_load, remaining_err, subtractions, response,
                   error>>

(***************************************************************************)
(* _adjust_allocation, one iteration of the loop of lines 170-187 over     *)
(* reversed(plants_with_cost).                                             *)
(***************************************************************************)
\* Adjusted that starts an idle plant without looking at its pmin
AdjustedNoPminCheck(pwc, current, remaining, e) ==
    IF remaining > 0
    THEN IF current > 0 /\ current < pwc.actual_pmax
         THEN LET increase == Min(pwc.actual_pmax - current, remaining)
              IN  <<Round1(current + increase), increase>>
         ELSE IF current = 0
              THEN LET new_allocation == Min(remaining, pwc.actual_pmax)
                   IN  <<Round1(new_allocation), new_allocation>>
              ELSE <<current, 0>>
    ELSE <<current, 0>>

\* <<new value of the plant, amount taken off remaining_load>>
Adjusted(pwc, current, remaining, e) ==
    IF remaining > 0
    THEN IF current > 0 /\ current < pwc.actual_pmax
         THEN LET increase == Min(pwc.actual_pmax - current, remaining)
              IN  <<Round1(current + increase), increase>>
         ELSE IF current = 0 /\ FloatGE(remaining, e, pwc.plant.pmin)
              THEN LET new_allocation == Min(remaining, pwc.actual_pmax)
                   IN  <<Round1(new_allocation), new_allocation>>
              ELSE <<current, 0>>
    ELSE <<current, 0>>

AdjustStep ==
    /\ pc = "adjust"
    /\ idx >= 1
    /\ IF ~AbsGT(remaining_load, remaining_err, Tolerance)
       THEN /\ pc' = "check"
            /\ idx' = 0
            /\ UNCHANGED <<allocation, remaining_load, remaining_err,
                           subtractions>>
       ELSE LET pwc == plants_with_cost[idx]
                current == allocation[pwc.plant.name]
                r == Adjusted(pwc, current, remaining_load, remaining_err)
            IN  /\ allocation' = Put(allocation, pwc.plant.name, r[1])
                /\ remaining_load' = remaining_load - r[2]
                /\ IF r[2] = 0
                   THEN UNCHANGED <<remaining_err, subtractions>>
                   ELSE /\ remaining_err'
                            \in ErrAfterSubtraction(remaining_load - r[2])
                        /\ subtractions' = Min(subtractions + 1, 2)
                /\ idx' = idx - 1
                /\ pc' = pc
    /\ UNCHANGED <<load, fuels, powerplants, plants_with_cost, first_pass,
                   adjusted, response, error>>

\* the reversed walk is exhausted: return allocation
AdjustDone ==
    /\ pc = "adjust"
    /\ idx = 0
    /\ pc' = "check"
    /\ UNCHANGED <<load, fuels, powerplants, plants_with_cost, allocation,
                   first_pass, remaining_load, remaining_err, subtractions,
                   idx, adjusted, response, error>>

(***************************************************************************)
(* _allocate_power, lines 148-157: the final check.                        *)
(***************************************************************************)
\* the error signs the float total_allocated - self.load can carry: a total
\* of 0.0 is exact; after a single subtraction total_allocated - self.load is
\* the negation of remaining_load; the sign matters only at the tolerance
TotalErr ==
    IF SumValues(allocation) = 0
           \/ Abs(SumValues(allocation) - load) # Tolerance
    THEN {0}
    ELSE IF subtractions = 1 /\ load - SumValues(allocation) = remaining_load
         THEN {0 - remaining_err}
         ELSE {-1, 1}

\* LoadNotMet without abs()
LoadNotMetNoAbs(alloc, required, e) ==
    ~FloatLE(SumValues(alloc) - required, e, Tolerance)

\* LoadNotMet with >= in place of >
LoadNotMetInclusive(alloc, required, e) ==
    Abs(SumValues(alloc) - required) >= Tolerance

\* CheckTotal that tests remaining_load in place of the recomputed total
CheckTotalOnRemaining ==
    /\ pc = "check"
    /\ IF AbsGT(remaining_load, remaining_err, Tolerance)
       THEN /\ pc' = "error"
            /\ error' = <<load, SumValues(allocation)>>
       ELSE /\ pc' = "respond"
            /\ error' = error
    /\ UNCHANGED <<load, fuels, powerplants, plants_with_cost, allocation,
                   first_pass, remaining_load, remaining_err, subtractions,
                   idx, adjusted, response>>

\* abs(total_allocated - self.load) > 0.1
LoadNotMet(alloc, required, e) ==
    AbsGT(SumValues(alloc) - required, e, Tolerance)

CheckTotal ==
    /\ pc = "check"
    /\ \E e \in TotalErr :
         IF LoadNotMet(allocation, load, e)
         THEN /\ pc' = "error"
              /\ error' = <<load, SumValues(allocation)>>
         ELSE /\ pc' = "respond"
              /\ error' = error
    /\ UNCHANGED <<load, fuels, powerplants, plants_with_cost, allocation,
                   first_pass, remaining_load, remaining_err, subtractions,
                   idx, adjusted, response>>

(***************************************************************************)
(* calculate_production_plan, lines 106-111: build the response.           *)
(***************************************************************************)
\* BuildResponse that walks the plants in merit order
BuildResponseMeritOrder(plants, alloc) ==
    [i \in 1..Len(plants) |->
        [name |-> MeritOrder(plants, fuels)[i].plant.name,
         p |-> Round1(Get(alloc, MeritOrder(plants, fuels)[i].plant.name))]]

BuildResponse(plants, alloc) ==
    [i \in 1..Len(plants) |->
        [name |-> plants[i].name, p |-> Round1(Get(alloc, plants[i].name))]]

Respond ==
    /\ pc = "respond"
    /\ response' = BuildResponse(powerplants, allocation)
    /\ pc' = "done"
    /\ UNCHANGED <<load, fuels, powerplants, plants_with_cost, allocation,
                   first_pass, remaining_load, remaining_err, subtractions,
                   idx, adjusted, error>>

Next ==
    \/ EstablishMeritOrder
    \/ GreedyStep
    \/ GreedyDone
    \/ AdjustStep
    \/ AdjustDone
    \/ CheckTotal
    \/ Respond

Spec == Init /\ [][Next]_vars

(***************************************************************************)
(* Vocabulary of the properties.                                           *)
(***************************************************************************)
NumPlants == Len(powerplants)

\* effective max of a plant: Pmax * wind% / 100 for a wind turbine, Pmax
\* for any other plant
EffectiveMax(plant) ==
    IF plant.type = WINDTURBINE
    THEN (plant.pmax * fuels.wind_percentage) \div 100
    ELSE plant.pmax

CostOf(plant) == calculate_cost_per_mwh(plant, fuels)

\* the value the allocation mapping holds for the i-th input plant
Assigned(i) == Get(allocation, powerplants[i].name)

UniqueNames ==
    \A i, j \in 1..NumPlants :
        i # j => powerplants[i].name # powerplants[j].name

OnTenths(x) == x % Tenth = 0

\* both allocation passes are over
PassesDone == pc \in {"check", "respond", "done", "error"}

RECURSIVE SumP(_)
SumP(resp) ==
    IF resp = <<>> THEN 0
    ELSE resp[Len(resp)].p + SumP(SubSeq(resp, 1, Len(resp) - 1))

RECURSIVE SumEffectiveMax(_, _)
SumEffectiveMax(plants, only) ==
    IF plants = <<>> THEN 0
    ELSE LET last == plants[Len(plants)]
         IN  (IF last.type \in only THEN EffectiveMax(last) ELSE 0)
             + SumEffectiveMax(SubSeq(plants, 1, Len(plants) - 1), only)

\* i is ranked before j in merit order: lower cost, or equal cost and larger
\* effective max
RankedBefore(i, j) ==
    \/ CostOf(powerplants[i]) < CostOf(powerplants[j])
    \/ /\ CostOf(powerplants[i]) = CostOf(powerplants[j])
       /\ EffectiveMax(powerplants[i]) > EffectiveMax(powerplants[j])

(***************************************************************************)
(* C1  Conservation: when a plan is returned for a request with unique     *)
(* plant names, the sum of the p values of the plan differs from the       *)
(* requested load by at most 0.1.                                          *)
(***************************************************************************)
Conservation ==
    (pc = "done" /\ UniqueNames) => Abs(SumP(response) - load) <= Tenth

\* a plan in which two differently named plants both produce
ConservationWitness ==
    /\ pc = "done"
    /\ UniqueNames
    /\ NumPlants >= 2
    /\ \A i \in 1..NumPlants : response[i].p > 0

(***************************************************************************)
(* C2  Bounds: in a returned plan every p is 0 or within                   *)
(* [Pmin, effective max] of its plant, also for a plant started by the     *)
(* adjuster and for a wind turbine whose effective max is below its Pmin.  *)
(* The claim is taken in its weakest reading: plant names are unique, and  *)
(* a p, which has one decimal, is within the bounds when it is the         *)
(* rounding of a value within them.                                        *)
(***************************************************************************)
WithinBounds(plant, p) ==
    \/ p = 0
    \/ \E x \in plant.pmin..EffectiveMax(plant) : p = Round1(x)

Bounds ==
    (pc = "done" /\ UniqueNames) =>
        \A i \in 1..NumPlants : WithinBounds(powerplants[i], response[i].p)

(***************************************************************************)
(* C3  No partial plan: a plan is built only from an allocation whose sum  *)
(* is within 0.1 of the load; an allocation whose sum is further away ends *)
(* in the LoadNotMet error, which carries the required and the allocated   *)
(* total, and no plan exists then.                                         *)
(***************************************************************************)
NoPartialPlan ==
    /\ pc \in {"respond", "done"} =>
           Abs(SumValues(allocation) - load) <= Tenth
    /\ (pc \in {"respond", "done", "error"}
           /\ Abs(SumValues(allocation) - load) > Tenth) => pc = "error"
    /\ pc = "error" => error = <<load, SumValues(allocation)>>
    /\ pc # "done" => response = <<>>
    /\ pc # "error" => error = <<>>

\* the adjuster ran, plants were allocated, and the run ended in the error
NoPartialPlanWitness ==
    /\ pc = "error"
    /\ adjusted
    /\ SumValues(allocation) > 0

(***************************************************************************)
(* C4  Wind dominance: when the total effective max of the wind turbines   *)
(* is at most the load, a non-wind plant has a positive output after the   *)
(* passes only if every wind turbine with a positive effective max holds   *)
(* its full effective max (as rounded to 0.1).                             *)
(***************************************************************************)
WindIsFull ==
    \A w \in 1..NumPlants :
        (powerplants[w].type = WINDTURBINE
            /\ EffectiveMax(powerplants[w]) > 0)
        => Assigned(w) \in {EffectiveMax(powerplants[w]),
                            Round1(EffectiveMax(powerplants[w]))}

NonWindRuns ==
    \E g \in 1..NumPlants :
        powerplants[g].type # WINDTURBINE /\ Assigned(g) > 0

WindFits == SumEffectiveMax(powerplants, {WINDTURBINE}) <= load

\* the claim as stated, for all fuel prices and all Pmin and Pmax
WindDominance ==
    (PassesDone /\ WindFits) => (NonWindRuns => WindIsFull)

\* the amended claim: unique names, every non-wind plant costs more than 0,
\* every wind turbine has Pmin = 0
WindDominancePositiveCost ==
    (/\ PassesDone
     /\ WindFits
     /\ UniqueNames
     /\ \A i \in 1..NumPlants :
            IF powerplants[i].type = WINDTURBINE
            THEN powerplants[i].pmin = 0
            ELSE CostOf(powerplants[i]) > 0)
    => (NonWindRuns => WindIsFull)

\* a wind turbine at its full positive effective max next to a running
\* non-wind plant, the wind turbine coming second in the request
WindDominanceWitness ==
    /\ pc = "done"
    /\ UniqueNames
    /\ WindFits
    /\ NumPlants >= 2
    /\ powerplants[1].type # WINDTURBINE
    /\ CostOf(powerplants[1]) > 0
    /\ Assigned(1) > 0
    /\ powerplants[2].type = WINDTURBINE
    /\ powerplants[2].pmin = 0
    /\ EffectiveMax(powerplants[2]) > 0
    /\ Assigned(2) = Round1(EffectiveMax(powerplants[2]))
    /\ \A i \in 1..NumPlants :
            IF powerplants[i].type = WINDTURBINE
            THEN powerplants[i].pmin = 0
            ELSE CostOf(powerplants[i]) > 0

(***************************************************************************)
(* C5  Cost monotonicity without Pmin: when every plant has Pmin = 0, a    *)
(* plant has a positive output only if every plant ranked before it holds  *)
(* its full effective max (rounded to 0.1), and every plant ranked after a *)
(* plant that holds less than that is at 0.                                *)
(***************************************************************************)
AllPminZero == \A i \in 1..NumPlants : powerplants[i].pmin = 0

FollowsMeritOrder ==
    \A i, j \in 1..NumPlants :
        RankedBefore(i, j) =>
            /\ Assigned(j) > 0 =>
                   Assigned(i) = Round1(EffectiveMax(powerplants[i]))
            /\ Assigned(i) < Round1(EffectiveMax(powerplants[i])) =>
                   Assigned(j) = 0

\* the claim as stated, for every request
CostMonotonicity ==
    (PassesDone /\ AllPminZero) => FollowsMeritOrder

\* the amended claim: for every request with unique plant names
CostMonotonicityUniqueNames ==
    (PassesDone /\ AllPminZero /\ UniqueNames) => FollowsMeritOrder

\* a cheaper plant at its full effective max and a dearer one partly loaded
CostMonotonicityWitness ==
    /\ pc = "done"
    /\ AllPminZero
    /\ UniqueNames
    /\ \E i, j \in 1..NumPlants :
           /\ RankedBefore(i, j)
           /\ Assigned(i) = Round1(EffectiveMax(powerplants[i]))
           /\ Assigned(j) > 0
           /\ Assigned(j) < Round1(EffectiveMax(powerplants[j]))

(***************************************************************************)
(* C6  Plan shape: a returned plan has one entry per input plant, in the   *)
(* order of the request, the i-th entry with the i-th plant's name and an  *)
(* output >= 0; no step changes the request's list of plants.              *)
(***************************************************************************)
PlanShape ==
    /\ [](pc = "done" =>
            /\ Len(response) = Len(powerplants)
            /\ \A i \in 1..Len(powerplants) :
                   /\ response[i].name = powerplants[i].name
                   /\ response[i].p >= 0)
    /\ [][powerplants' = powerplants]_vars

\* a plan for a request whose merit order is not its input order
PlanShapeWitness ==
    /\ pc = "done"
    /\ UniqueNames
    /\ NumPlants >= 2
    /\ plants_with_cost[1].plant # powerplants[1]
    /\ response[1].p # response[2].p

(***************************************************************************)
(* C7  Allocation invariant: in every state of both passes, also of a run  *)
(* that ends in LoadNotMet, every value of the allocation mapping is       *)
(* within [0, effective max] of its plant and is 0 or at least the plant's *)
(* Pmin.  As for C2 the claim is taken in its weakest reading: unique      *)
(* names, and a value is within the bounds when it is the rounding of a    *)
(* value within them.                                                      *)
(***************************************************************************)
AllocationInvariant ==
    UniqueNames =>
        \A i \in 1..NumPlants :
            powerplants[i].name \in DOMAIN allocation =>
                /\ 0 <= allocation[powerplants[i].name]
                /\ \/ allocation[powerplants[i].name] = 0
                   \/ \E x \in powerplants[i].pmin
                                   ..EffectiveMax(powerplants[i]) :
                          allocation[powerplants[i].name] = Round1(x)

(***************************************************************************)
(* C8  Merit order: the ranked sequence is a permutation of the costed     *)
(* input plants, ordered by cost ascending, then effective max descending; *)
(* plants equal on both keys keep their input order.                       *)
(***************************************************************************)
Permutations(n) ==
    {f \in [1..n -> 1..n] : \A i, j \in 1..n : i # j => f[i] # f[j]}

RankedByMerit ==
    /\ Len(plants_with_cost) = NumPlants
    /\ \E f \in Permutations(NumPlants) :
          /\ \A k \in 1..NumPlants :
                /\ plants_with_cost[k].plant = powerplants[f[k]]
                /\ plants_with_cost[k].cost_per_mwh = CostOf(powerplants[f[k]])
                /\ plants_with_cost[k].actual_pmax
                      = EffectiveMax(powerplants[f[k]])
          /\ \A j, k \in 1..NumPlants :
                (/\ j < k
                 /\ plants_with_cost[j].cost_per_mwh
                       = plants_with_cost[k].cost_per_mwh
                 /\ plants_with_cost[j].actual_pmax
                       = plants_with_cost[k].actual_pmax)
                => f[j] < f[k]
    /\ \A k \in 1..(NumPlants - 1) :
           LET a == plants_with_cost[k]
               b == plants_with_cost[k + 1]
           IN  \/ a.cost_per_mwh < b.cost_per_mwh
               \/ /\ a.cost_per_mwh = b.cost_per_mwh
                  /\ a.actual_pmax >= b.actual_pmax

\* the sequence is ranked when the greedy pass starts, no later step changes
\* it, the greedy pass walks it forwards and the adjuster backwards
MeritOrderRanked ==
    /\ []((pc = "greedy" /\ idx = 1) => RankedByMerit)
    /\ [][/\ pc # "start" => plants_with_cost' = plants_with_cost
          /\ (pc = "greedy" /\ pc' = "greedy") => idx' = idx + 1
          /\ (pc = "greedy" /\ pc' = "adjust") => idx' = Len(plants_with_cost)
          /\ (pc = "adjust" /\ pc' = "adjust") => idx' = idx - 1]_vars

\* the sort moved a plant, and the cheaper plants tie on cost
MeritOrderRankedWitness ==
    /\ pc = "adjust"
    /\ NumPlants >= 2
    /\ plants_with_cost[1].plant = powerplants[2]
    /\ plants_with_cost[1].cost_per_mwh = plants_with_cost[2].cost_per_mwh
    /\ plants_with_cost[1].actual_pmax > plants_with_cost[2].actual_pmax

(***************************************************************************)
(* C9  The adjuster never rescues a request whose plants are all           *)
(* startable: with unique names, load, Pmin and effective max on multiples *)
(* of 0.1 and effective max >= Pmin for every plant, once the first pass   *)
(* ends with more than 0.1 remaining the adjuster changes no value and the *)
(* run ends in LoadNotMet; every returned plan is the first-pass           *)
(* allocation.                                                             *)
(***************************************************************************)
AllStartableOnTenths ==
    /\ UniqueNames
    /\ OnTenths(load)
    /\ \A i \in 1..NumPlants :
           /\ OnTenths(powerplants[i].pmin)
           /\ OnTenths(EffectiveMax(powerplants[i]))
           /\ EffectiveMax(powerplants[i]) >= powerplants[i].pmin

AdjusterNeverRescues ==
    AllStartableOnTenths =>
        /\ adjusted =>
               /\ allocation = first_pass
               /\ pc \in {"adjust", "check", "error"}
        /\ pc = "done" =>
               \A i \in 1..NumPlants :
                   response[i].p = Get(first_pass, powerplants[i].name)

\* the first plant runs at its maximum, the second stays off because what
\* remains is below its Pmin, and the run ends in the error
AdjusterNeverRescuesWitness ==
    /\ AllStartableOnTenths
    /\ pc = "error"
    /\ adjusted
    /\ \E i, j \in 1..NumPlants :
           /\ Assigned(i) = powerplants[i].pmax
           /\ Assigned(j) = 0
           /\ powerplants[j].pmin > 0
           /\ load - Assigned(i) > Tenth
           /\ load <= EffectiveMax(powerplants[j])

(***************************************************************************)
(* C10  Completeness without Pmin: with unique names, every Pmin = 0 and   *)
(* load and every effective max on multiples of 0.1, a plan is returned    *)
(* exactly when the effective maxima sum to at least load - 0.1, and then  *)
(* the adjuster was not invoked; otherwise the run ends in LoadNotMet.     *)
(***************************************************************************)
NoPminOnTenths ==
    /\ UniqueNames
    /\ AllPminZero
    /\ OnTenths(load)
    /\ \A i \in 1..NumPlants : OnTenths(EffectiveMax(powerplants[i]))

CapacitySuffices ==
    SumEffectiveMax(powerplants, PowerPlantType) >= load - Tenth

CompletenessNoPmin ==
    NoPminOnTenths =>
        /\ pc \in {"respond", "done"} => (CapacitySuffices /\ ~adjusted)
        /\ pc = "error" => ~CapacitySuffices
        /\ (PassesDone /\ CapacitySuffices) => pc # "error"

\* a plan whose total is exactly 0.1 below the load, all plants at maximum
CompletenessNoPminWitness ==
    /\ NoPminOnTenths
    /\ pc = "done"
    /\ NumPlants >= 2
    /\ SumEffectiveMax(powerplants, PowerPlantType) = load - Tenth
    /\ \A i \in 1..NumPlants : response[i].p > 0

====
